---- MODULE Spec2Model ----
(***************************************************************************)
(* aliyun_monitor (src/src/monitor.py): a periodic job that, for every     *)
(* configured instance, reads the account's traffic and the instance's     *)
(* status and starts or stops the instance, keeping per-instance history   *)
(* (last-notified timestamps, consecutive start failures) in a state file. *)
(*                                                                         *)
(* Python dicts are functions whose domain is the set of keys present.     *)
(* The clock is time.time() in whole seconds; traffic is counted in MiB,   *)
(* so that curr_gb < limit is total < limit * 1024.                        *)
(***************************************************************************)
EXTENDS Integers, Sequences, FiniteSets, TLC

VARIABLES
    config,     \* users of config.json, in file order (fixed for a behaviour)
    period,     \* seconds between two firings of the scheduler (fixed)
    disk,       \* the state file: [kind: "missing" | "corrupt" | "json", data]
    state,      \* the history dict of the running process
    now,        \* time.time()
    pc,         \* where the process is
    idx,        \* position of main's for loop in config (1-based)
    status,     \* check_and_act local: status of the initial query
    total,      \* check_and_act local: traffic of the account, in MiB
    failures,   \* check_and_act local: failures read at line 142
    waited,     \* check_and_act local
    started,    \* check_and_act local
    cyc,        \* what the current (or just finished) cycle did, observably
    run,        \* what the current (or just finished) run of main did
    sent,       \* (instance id, event key) -> time of the last send_tg_alert call
    gate,       \* ids whose failure count reached the threshold and that the
                \* engine has not started with confirmation since
    runs,       \* number of runs of main so far
    twins       \* two processes given the same inputs, one with notifier
                \* credentials and one without (used for send_tg_alert only)

vars == <<config, period, disk, state, now, pc, idx, status, total, failures, waited,
          started, cyc, run, sent, gate, runs, twins>>

locals == <<status, total, failures, waited, started>>

-----------------------------------------------------------------------------
(* Program constants *)

NOTIFY_COOLDOWN == 3600
OVERLIMIT_COOLDOWN == 86400
START_WAIT_TIMEOUT == 120
START_POLL_INTERVAL == 10
MAX_START_FAILURES == 3
DEFAULT_TRAFFIC_LIMIT == 180
MiBPerGiB == 1024

(* Bounds of the model *)

MaxRunsOne == 5         \* runs of main in a behaviour, one user configured
MaxRunsMany == 1        \* runs of main in a behaviour, several users configured
MaxRunsCrash == 2       \* runs of main in a behaviour, a user without 'name'
StartClock == 100000    \* the clock before the first run

MaxRuns(c) ==
    IF Len(c) = 1 THEN MaxRunsOne
    ELSE IF \E j \in 1..Len(c) : "name" \notin DOMAIN c[j] THEN MaxRunsCrash
    ELSE MaxRunsMany

-----------------------------------------------------------------------------
(* dict helpers *)

EmptyDict == [x \in {} |-> 0]

Get(d, k, default) == IF k \in DOMAIN d THEN d[k] ELSE default

Put(d, k, v) == [x \in DOMAIN d \cup {k} |-> IF x = k THEN v ELSE d[x]]

Pop(d, k) == [x \in DOMAIN d \ {k} |-> d[x]]

SetDefault(d, k) == IF k \in DOMAIN d THEN d ELSE Put(d, k, EmptyDict)

-----------------------------------------------------------------------------
(* The environment: configuration, cloud replies, scheduler *)

EventKeys == {"resumed", "start_failed", "no_resource", "overlimit"}

Statuses == {"Running", "Stopped", "Starting"}

NotFound == "None"

StatusReplies == Statuses \cup {NotFound}

\* the polls of the confirmation loop at which the cloud may answer Running
\* (the first, one inside, the last)
ReadyPolls == {1, 6, 12}

PollReplies(n) == IF n \in ReadyPolls THEN StatusReplies
                  ELSE StatusReplies \ {"Running"}

\* traffic totals (MiB) around the quotas of the configured users
TrafficReplies == {180 * MiBPerGiB - 1, 180 * MiBPerGiB, 200 * MiBPerGiB}

\* the scheduler fires at the multiples of its period (seconds); a run takes
\* less than the shortest period
Periods == {300, NOTIFY_COOLDOWN, OVERLIMIT_COOLDOWN}

User1 == [instance_id |-> "i-1", name |-> "one"]

User2 == [instance_id |-> "i-2", name |-> "two", traffic_limit |-> 200]

UserNoName == [instance_id |-> "i-3"]

Configs == { <<User1>>, <<User1, User2>>, <<User1, UserNoName, User2>> }

\* a state file left by earlier runs: i-1 failed three starts, was reported
\* as out of resources and was then seen Running; i-9 is no longer configured
OldHistory ==
    [x \in {"i-1", "i-9"} |->
        IF x = "i-1"
        THEN [start_failures |-> 0,
              start_failed |-> StartClock - 1200,
              no_resource |-> StartClock - 600]
        ELSE [overlimit |-> StartClock - 90000, start_failures |-> 2]]

InitDisks == { [kind |-> "missing", data |-> EmptyDict],
               [kind |-> "corrupt", data |-> EmptyDict],
               [kind |-> "json", data |-> OldHistory] }

-----------------------------------------------------------------------------
(* StateStore: lines 50-83 *)

\* load_state: the file's content, or {} when it is missing or unreadable
load_state(d) == IF d.kind = "json" THEN d.data ELSE EmptyDict

\* save_state that writes the entries of the configured users only
save_state_ConfiguredOnly(st) ==
    [kind |-> "json",
     data |-> [i \in {x \in DOMAIN st :
                         \E j \in 1..Len(config) : config[j].instance_id = x}
               |-> st[i]]]

\* save_state writes the whole dict
save_state(st) == [kind |-> "json", data |-> st]

\* can_notify that ignores its cooldown argument
can_notify_DefaultOnly(st, instance_id, event_key, cooldown, t) ==
    LET last_ts == Get(Get(st, instance_id, EmptyDict), event_key, 0)
    IN  (t - last_ts) >= NOTIFY_COOLDOWN

\* can_notify at clock t; a missing timestamp reads as 0
can_notify(st, instance_id, event_key, cooldown, t) ==
    LET last_ts == Get(Get(st, instance_id, EmptyDict), event_key, 0)
    IN  (t - last_ts) >= cooldown

mark_notified(st, instance_id, event_key, t) ==
    LET s1 == SetDefault(st, instance_id)
    IN  Put(s1, instance_id, Put(s1[instance_id], event_key, t))

get_start_failures(st, instance_id) ==
    Get(Get(st, instance_id, EmptyDict), "start_failures", 0)

\* set_start_failures that stores one more than it is given
set_start_failures_Plus(st, instance_id, count) ==
    LET s1 == SetDefault(st, instance_id)
    IN  Put(s1, instance_id, Put(s1[instance_id], "start_failures", count + 1))

set_start_failures(st, instance_id, count) ==
    LET s1 == SetDefault(st, instance_id)
    IN  Put(s1, instance_id, Put(s1[instance_id], "start_failures", count))

reset_start_failures(st, instance_id) ==
    LET s1 == SetDefault(st, instance_id)
    IN  Put(s1, instance_id, Put(s1[instance_id], "start_failures", 0))

\* clear_no_resource that creates the entry and removes nothing
clear_no_resource_Keeps(st, instance_id) == SetDefault(st, instance_id)

\* state.setdefault(instance_id, {}).pop('no_resource', None)
clear_no_resource(st, instance_id) ==
    LET s1 == SetDefault(st, instance_id)
    IN  Put(s1, instance_id, Pop(s1[instance_id], "no_resource"))

\* the ids whose stored failure count is at the threshold or above
AtThreshold(st) ==
    {i \in DOMAIN st : get_start_failures(st, i) >= MAX_START_FAILURES}

-----------------------------------------------------------------------------
(* Notifier: lines 87-97 *)

\* Python truth of a config value; None and '' are both ""
Truthy(v) == v # ""

\* send_tg_alert that subscripts tg_conf instead of calling get: KeyError
\* when a credential is not configured
send_tg_alert_Raises(tg_conf, net) ==
    IF {"bot_token", "chat_id"} \subseteq DOMAIN tg_conf
    THEN [raised |-> FALSE,
          posted |-> Truthy(tg_conf.bot_token) /\ Truthy(tg_conf.chat_id)
                        /\ net = "ok"]
    ELSE [raised |-> TRUE, posted |-> FALSE]

\* send_tg_alert: returns at once without both credentials; an error of the
\* post is caught and logged; the function never raises
send_tg_alert(tg_conf, net) ==
    IF ~Truthy(Get(tg_conf, "bot_token", "")) \/ ~Truthy(Get(tg_conf, "chat_id", ""))
    THEN [raised |-> FALSE, posted |-> FALSE]
    ELSE [raised |-> FALSE, posted |-> (net = "ok")]

-----------------------------------------------------------------------------
(* check_and_act, step by step *)

IdleCyc ==
    [active |-> FALSE, done |-> FALSE, id |-> "", pre |-> EmptyDict,
     sentPre |-> EmptyDict, log |-> <<>>, polls |-> 0, firstRunning |-> 0,
     raisedAt |-> "", notFoundAt |-> "", gotTraffic |-> FALSE, traffic |-> 0,
     limit |-> 0, status0 |-> "", branch |-> "", outcome |-> ""]

IdleRun == [visited |-> <<>>, saves |-> 0, loaded |-> FALSE]

IdleTwins == [with |-> EmptyDict, without |-> EmptyDict, alerts |-> 0]

user == config[idx]

instance_id == user.instance_id

\* user.get('traffic_limit', 180)
limit == Get(user, "traffic_limit", DEFAULT_TRAFFIC_LIMIT)

\* the comparison with the quota itself counted as safe
BelowLimit_Inclusive(t, l) == t <= l * MiBPerGiB

\* curr_gb < limit, with curr_gb = total_bytes / 1024 ** 3
BelowLimit(t, l) == t < l * MiBPerGiB

Cmd(c, name) ==
    [c EXCEPT !.log = Append(@, [op |-> name, arg |-> c.id, at |-> now])]

\* "if can_notify(...): send_tg_alert(...); mark_notified(...)"
Alert(st, c, s, event_key, cooldown) ==
    IF can_notify(st, c.id, event_key, cooldown, now)
    THEN [state |-> mark_notified(st, c.id, event_key, now),
          cyc   |-> [c EXCEPT !.log =
                        Append(@, [op |-> "Notify", arg |-> event_key, at |-> now])],
          sent  |-> Put(s, <<c.id, event_key>>, now)]
    ELSE [state |-> st, cyc |-> c, sent |-> s]

\* check_and_act returns to main's loop
Return(c) ==
    /\ pc' = "loop"
    /\ idx' = idx + 1
    /\ cyc' = [c EXCEPT !.done = TRUE]
    /\ status' = ""
    /\ total' = 0
    /\ failures' = 0
    /\ waited' = 0
    /\ started' = FALSE

\* an exception inside the try block: logged, nothing else
Raise(where) ==
    /\ Return([cyc EXCEPT !.raisedAt = where])
    /\ UNCHANGED <<config, period, disk, state, now, run, sent, gate, runs, twins>>

\* lines 113-116: the two subscripts are outside the try block, so a user
\* without 'instance_id' or 'name' raises KeyError out of check_and_act and
\* out of main: the process dies with a traceback
CheckAndActEnter ==
    /\ pc = "loop"
    /\ idx <= Len(config)
    /\ run' = [run EXCEPT !.visited = Append(@, idx)]
    /\ IF {"instance_id", "name"} \subseteq DOMAIN user
       THEN /\ pc' = "traffic"
            /\ cyc' = [IdleCyc EXCEPT !.active = TRUE, !.id = instance_id,
                                      !.pre = state, !.sentPre = sent,
                                      !.limit = limit]
            /\ UNCHANGED state
       ELSE /\ pc' = "crashed"
            /\ cyc' = IdleCyc
            /\ state' = EmptyDict
    /\ UNCHANGED <<config, period, disk, now, idx, locals, sent, gate, runs, twins>>

\* lines 119-128
QueryTraffic ==
    /\ pc = "traffic"
    /\ \E t \in TrafficReplies :
          /\ total' = t
          /\ cyc' = [cyc EXCEPT !.gotTraffic = TRUE, !.traffic = t]
    /\ pc' = "status"
    /\ UNCHANGED <<config, period, disk, state, now, idx, status, failures, waited,
                   started, run, sent, gate, runs, twins>>

QueryTrafficFails ==
    /\ pc = "traffic"
    /\ Raise("traffic")

\* lines 131-134
QueryStatus ==
    /\ pc = "status"
    /\ \E s \in StatusReplies :
          IF s = NotFound
          THEN /\ Return([cyc EXCEPT !.notFoundAt = "status"])
               /\ UNCHANGED <<config, period, disk, state, now, run, sent, gate, runs, twins>>
          ELSE /\ status' = s
               /\ cyc' = [cyc EXCEPT !.status0 = s]
               /\ pc' = "decide"
               /\ UNCHANGED <<config, period, disk, state, now, idx, total, failures,
                              waited, started, run, sent, gate, runs,
                              twins>>

QueryStatusFails ==
    /\ pc = "status"
    /\ Raise("status")

\* lines 139-152: safe, Stopped, failures >= MAX_START_FAILURES
Exhausted ==
    /\ pc = "decide"
    /\ BelowLimit(total, cyc.limit)
    /\ status = "Stopped"
    /\ get_start_failures(state, cyc.id) >= MAX_START_FAILURES
    /\ LET r == Alert(state, [cyc EXCEPT !.branch = "safe"], sent,
                      "no_resource", NOTIFY_COOLDOWN)
       IN  /\ state' = r.state
           /\ sent' = r.sent
           /\ Return(r.cyc)
    /\ UNCHANGED <<config, period, disk, now, run, gate, runs, twins>>

\* TryStart without the threshold test
TryStart_NoGate ==
    /\ pc = "decide"
    /\ BelowLimit(total, cyc.limit)
    /\ status = "Stopped"
    /\ failures' = get_start_failures(state, cyc.id)
    /\ cyc' = [cyc EXCEPT !.branch = "safe"]
    /\ pc' = "start"
    /\ UNCHANGED <<config, period, disk, state, now, idx, status, total, waited,
                   started, run, sent, gate, runs, twins>>

\* TryStart with the threshold test off by one (failures > MAX_START_FAILURES
\* taken as exhausted)
TryStart_OffByOne ==
    /\ pc = "decide"
    /\ BelowLimit(total, cyc.limit)
    /\ status = "Stopped"
    /\ get_start_failures(state, cyc.id) <= MAX_START_FAILURES
    /\ failures' = get_start_failures(state, cyc.id)
    /\ cyc' = [cyc EXCEPT !.branch = "safe"]
    /\ pc' = "start"
    /\ UNCHANGED <<config, period, disk, state, now, idx, status, total, waited,
                   started, run, sent, gate, runs, twins>>

\* lines 139-143, 154-155: safe, Stopped, failures below the threshold
TryStart ==
    /\ pc = "decide"
    /\ BelowLimit(total, cyc.limit)
    /\ status = "Stopped"
    /\ get_start_failures(state, cyc.id) < MAX_START_FAILURES
    /\ failures' = get_start_failures(state, cyc.id)
    /\ cyc' = [cyc EXCEPT !.branch = "safe"]
    /\ pc' = "start"
    /\ UNCHANGED <<config, period, disk, state, now, idx, status, total, waited,
                   started, run, sent, gate, runs, twins>>

\* StartInstance that counts the attempt as failed before it is confirmed
StartInstance_CountsFirst ==
    /\ pc = "start"
    /\ cyc' = Cmd(cyc, "StartInstance")
    /\ state' = set_start_failures(state, cyc.id, failures + 1)
    /\ started' = FALSE
    /\ waited' = 0
    /\ pc' = "poll"
    /\ UNCHANGED <<config, period, disk, now, idx, status, total, failures,
                   run, sent, gate, runs, twins>>

\* lines 155-161
StartInstance ==
    /\ pc = "start"
    /\ cyc' = Cmd(cyc, "StartInstance")
    /\ started' = FALSE
    /\ waited' = 0
    /\ pc' = "poll"
    /\ UNCHANGED <<config, period, disk, state, now, idx, status, total, failures,
                   run, sent, gate, runs, twins>>

StartInstanceFails ==
    /\ pc = "start"
    /\ Raise("start")

\* Poll without the break: the loop goes on after Running was answered
Poll_NoBreak ==
    /\ pc = "poll"
    /\ waited < START_WAIT_TIMEOUT
    /\ now' = now + START_POLL_INTERVAL
    /\ waited' = waited + START_POLL_INTERVAL
    /\ \E real_status \in PollReplies(cyc.polls + 1) :
          /\ cyc' = [cyc EXCEPT !.polls = @ + 1,
                                !.firstRunning =
                                    IF real_status = "Running" /\ @ = 0
                                    THEN cyc.polls + 1 ELSE @,
                                !.notFoundAt = IF real_status = NotFound
                                               THEN "poll" ELSE @]
          /\ started' = (started \/ real_status = "Running")
    /\ UNCHANGED <<config, period, disk, state, pc, idx, status, total, failures,
                   run, sent, gate, runs, twins>>

\* lines 162-169: one iteration of the while loop
Poll ==
    /\ pc = "poll"
    /\ ~started
    /\ waited < START_WAIT_TIMEOUT
    /\ now' = now + START_POLL_INTERVAL
    /\ waited' = waited + START_POLL_INTERVAL
    /\ \E real_status \in PollReplies(cyc.polls + 1) :
          /\ cyc' = [cyc EXCEPT !.polls = @ + 1,
                                !.firstRunning =
                                    IF real_status = "Running" /\ @ = 0
                                    THEN cyc.polls + 1 ELSE @,
                                !.notFoundAt = IF real_status = NotFound
                                               THEN "poll" ELSE @]
          /\ started' = (real_status = "Running")
    /\ UNCHANGED <<config, period, disk, state, pc, idx, status, total, failures,
                   run, sent, gate, runs, twins>>

\* the status query of an iteration raises
PollFails ==
    /\ pc = "poll"
    /\ ~started
    /\ waited < START_WAIT_TIMEOUT
    /\ now' = now + START_POLL_INTERVAL
    /\ Return([cyc EXCEPT !.polls = @ + 1, !.raisedAt = "poll"])
    /\ UNCHANGED <<config, period, disk, state, run, sent, gate, runs, twins>>

\* lines 171-180
Started ==
    /\ pc = "poll"
    /\ started
    /\ LET s1 == clear_no_resource(reset_start_failures(state, cyc.id), cyc.id)
           r  == Alert(s1, [cyc EXCEPT !.outcome = "started"], sent,
                       "resumed", NOTIFY_COOLDOWN)
       IN  /\ state' = r.state
           /\ sent' = r.sent
           /\ Return(r.cyc)
    /\ gate' = gate \ {cyc.id}
    /\ UNCHANGED <<config, period, disk, now, run, runs, twins>>

\* lines 181-192
TimedOut ==
    /\ pc = "poll"
    /\ ~started
    /\ waited >= START_WAIT_TIMEOUT
    /\ LET new_failures == failures + 1
           s1 == set_start_failures(state, cyc.id, new_failures)
           r  == Alert(s1, [cyc EXCEPT !.outcome = "timeout"], sent,
                       "start_failed", NOTIFY_COOLDOWN)
       IN  /\ state' = r.state
           /\ sent' = r.sent
           /\ gate' = gate \cup AtThreshold(r.state)
           /\ Return(r.cyc)
    /\ UNCHANGED <<config, period, disk, now, run, runs, twins>>

\* SteadyRunning that also clears the no_resource timestamp
SteadyRunning_Clears ==
    /\ pc = "decide"
    /\ BelowLimit(total, cyc.limit)
    /\ status = "Running"
    /\ state' = clear_no_resource(reset_start_failures(state, cyc.id), cyc.id)
    /\ Return([cyc EXCEPT !.branch = "safe"])
    /\ UNCHANGED <<config, period, disk, now, run, sent, gate, runs, twins>>

\* lines 194-197
SteadyRunning ==
    /\ pc = "decide"
    /\ BelowLimit(total, cyc.limit)
    /\ status = "Running"
    /\ state' = reset_start_failures(state, cyc.id)
    /\ Return([cyc EXCEPT !.branch = "safe"])
    /\ UNCHANGED <<config, period, disk, now, run, sent, gate, runs, twins>>

\* Intermediate that treats every status other than Running as Stopped
Intermediate_Starts ==
    /\ pc = "decide"
    /\ BelowLimit(total, cyc.limit)
    /\ status \notin {"Stopped", "Running"}
    /\ failures' = get_start_failures(state, cyc.id)
    /\ cyc' = [cyc EXCEPT !.branch = "safe"]
    /\ pc' = "start"
    /\ UNCHANGED <<config, period, disk, state, now, idx, status, total, waited,
                   started, run, sent, gate, runs, twins>>

\* Intermediate that resets the failure count like the Running branch
Intermediate_Resets ==
    /\ pc = "decide"
    /\ BelowLimit(total, cyc.limit)
    /\ status \notin {"Stopped", "Running"}
    /\ state' = reset_start_failures(state, cyc.id)
    /\ Return([cyc EXCEPT !.branch = "safe"])
    /\ UNCHANGED <<config, period, disk, now, run, sent, gate, runs, twins>>

\* lines 198-200
Intermediate ==
    /\ pc = "decide"
    /\ BelowLimit(total, cyc.limit)
    /\ status \notin {"Stopped", "Running"}
    /\ Return([cyc EXCEPT !.branch = "safe"])
    /\ UNCHANGED <<config, period, disk, state, now, run, sent, gate, runs, twins>>

\* OverlimitRunning that stops the instance only when the overlimit alert is due
OverlimitRunning_Gated ==
    /\ pc = "decide"
    /\ ~BelowLimit(total, cyc.limit)
    /\ status = "Running"
    /\ IF can_notify(state, cyc.id, "overlimit", OVERLIMIT_COOLDOWN, now)
       THEN /\ cyc' = [cyc EXCEPT !.branch = "overlimit"]
            /\ pc' = "stop"
            /\ UNCHANGED <<idx, locals>>
       ELSE Return([cyc EXCEPT !.branch = "overlimit"])
    /\ UNCHANGED <<config, period, disk, state, now, run, sent, gate, runs, twins>>

\* lines 202-205
OverlimitRunning ==
    /\ pc = "decide"
    /\ ~BelowLimit(total, cyc.limit)
    /\ status = "Running"
    /\ cyc' = [cyc EXCEPT !.branch = "overlimit"]
    /\ pc' = "stop"
    /\ UNCHANGED <<config, period, disk, state, now, idx, locals, run, sent,
                   gate, runs, twins>>

\* StopInstance that also clears the failure count
StopInstance_Resets ==
    /\ pc = "stop"
    /\ LET r == Alert(reset_start_failures(state, cyc.id),
                      Cmd(cyc, "StopInstance"), sent,
                      "overlimit", OVERLIMIT_COOLDOWN)
       IN  /\ state' = r.state
           /\ sent' = r.sent
           /\ Return(r.cyc)
    /\ UNCHANGED <<config, period, disk, now, run, gate, runs, twins>>

\* lines 206-212
StopInstance ==
    /\ pc = "stop"
    /\ LET r == Alert(state, Cmd(cyc, "StopInstance"), sent,
                      "overlimit", OVERLIMIT_COOLDOWN)
       IN  /\ state' = r.state
           /\ sent' = r.sent
           /\ Return(r.cyc)
    /\ UNCHANGED <<config, period, disk, now, run, gate, runs, twins>>

StopInstanceFails ==
    /\ pc = "stop"
    /\ Raise("stop")

\* lines 213-219
OverlimitStopped ==
    /\ pc = "decide"
    /\ ~BelowLimit(total, cyc.limit)
    /\ status # "Running"
    /\ LET r == Alert(state, [cyc EXCEPT !.branch = "overlimit"], sent,
                      "overlimit", OVERLIMIT_COOLDOWN)
       IN  /\ state' = r.state
           /\ sent' = r.sent
           /\ Return(r.cyc)
    /\ UNCHANGED <<config, period, disk, now, run, gate, runs, twins>>

-----------------------------------------------------------------------------
(* main: lines 224-229 *)

\* the scheduler fires at the next multiple of its period: load_config,
\* load_state, and the for loop begins
Trigger ==
    /\ pc \in {"idle", "crashed"}
    /\ runs < MaxRuns(config)
    /\ runs' = runs + 1
    /\ now' = ((now \div period) + 1) * period
    /\ state' = load_state(disk)
    /\ pc' = "loop"
    /\ idx' = 1
    /\ run' = [IdleRun EXCEPT !.loaded = TRUE]
    /\ cyc' = IdleCyc
    /\ gate' = gate \cup AtThreshold(load_state(disk))
    /\ UNCHANGED <<config, period, disk, locals, sent, twins>>

\* line 229, after the last user; the process then exits
SaveState ==
    /\ pc = "loop"
    /\ idx > Len(config)
    /\ disk' = save_state(state)
    /\ run' = [run EXCEPT !.saves = @ + 1]
    /\ pc' = "idle"
    /\ state' = EmptyDict
    /\ cyc' = IdleCyc
    /\ UNCHANGED <<config, period, now, idx, locals, sent, gate, runs, twins>>

-----------------------------------------------------------------------------

\* the timestamps a state file holds are those of earlier send_tg_alert calls
SentOf(d) ==
    LET h == load_state(d)
        pairs == {<<i, k>> \in (DOMAIN h) \X EventKeys : k \in DOMAIN h[i]}
    IN  [p \in pairs |-> h[p[1]][p[2]]]

Init ==
    /\ config \in Configs
    /\ period \in Periods
    /\ disk \in InitDisks
    /\ state = EmptyDict
    /\ now = StartClock
    /\ pc = "idle"
    /\ idx = 1
    /\ status = ""
    /\ total = 0
    /\ failures = 0
    /\ waited = 0
    /\ started = FALSE
    /\ cyc = IdleCyc
    /\ run = IdleRun
    /\ sent = SentOf(disk)
    /\ gate = {}
    /\ runs = 0
    /\ twins = IdleTwins

Next ==
    \/ Trigger
    \/ CheckAndActEnter
    \/ QueryTraffic
    \/ QueryTrafficFails
    \/ QueryStatus
    \/ QueryStatusFails
    \/ Exhausted
    \/ TryStart
    \/ StartInstance
    \/ StartInstanceFails
    \/ Poll
    \/ PollFails
    \/ Started
    \/ TimedOut
    \/ SteadyRunning
    \/ Intermediate
    \/ OverlimitRunning
    \/ StopInstance
    \/ StopInstanceFails
    \/ OverlimitStopped
    \/ SaveState

Spec == Init /\ [][Next]_vars

-----------------------------------------------------------------------------
(* What a cycle did, read from its record *)

CycleDone == cyc.active /\ cyc.done

Issued(name) == \E j \in DOMAIN cyc.log : cyc.log[j].op = name

Notified(event_key) ==
    \E j \in DOMAIN cyc.log :
        cyc.log[j].op = "Notify" /\ cyc.log[j].arg = event_key

NoNotify == \A j \in DOMAIN cyc.log : cyc.log[j].op # "Notify"

\* the failure count of the cycle's target before the cycle and now
CountBefore == get_start_failures(cyc.pre, cyc.id)

CountAfter == get_start_failures(state, cyc.id)

\* both queries of the cycle answered, with an instance found
QueriesDone == cyc.gotTraffic /\ cyc.status0 # ""

CaseA == cyc.gotTraffic /\ cyc.traffic < cyc.limit * MiBPerGiB

CaseB == cyc.gotTraffic /\ cyc.traffic >= cyc.limit * MiBPerGiB

Window(event_key) ==
    IF event_key = "overlimit" THEN OVERLIMIT_COOLDOWN ELSE NOTIFY_COOLDOWN

\* the timestamp the target's history held for the key when the cycle began
StampBefore(event_key) == Get(Get(cyc.pre, cyc.id, EmptyDict), event_key, 0)

HadStamp(event_key) == event_key \in DOMAIN Get(cyc.pre, cyc.id, EmptyDict)

HasStamp(event_key) == event_key \in DOMAIN Get(state, cyc.id, EmptyDict)

-----------------------------------------------------------------------------
(* C1 *)

\* C1, as stated: once the failure count of a target has reached 3, no
\* StartInstance command is issued for it until a start issued by the engine
\* has been confirmed Running.
C1_Original ==
    (cyc.active /\ Issued("StartInstance")) => cyc.id \notin gate

\* C1, amended: a StartInstance command is issued only in a cycle that begins
\* with the target's failure count below 3; a count of 3 or more is changed
\* only by a Case A cycle that finds the instance Running (which sets it to 0,
\* with no start issued by the engine), and the exhaustion-notification path
\* leaves it unchanged.
C1_Gate ==
    /\ (cyc.active /\ Issued("StartInstance")) => CountBefore < MAX_START_FAILURES
    /\ (CycleDone /\ CountBefore >= MAX_START_FAILURES) =>
          /\ ~Issued("StartInstance")
          /\ \/ CountAfter = CountBefore
             \/ /\ CountAfter = 0
                /\ CaseA
                /\ cyc.status0 = "Running"
          /\ (CaseA /\ cyc.status0 = "Stopped") => CountAfter = CountBefore

\* an exhausted target was reported and neither started nor reset
C1_Witness ==
    /\ CycleDone
    /\ CountBefore >= MAX_START_FAILURES
    /\ CaseA
    /\ cyc.status0 = "Stopped"
    /\ Notified("no_resource")
    /\ CountAfter = CountBefore

-----------------------------------------------------------------------------
(* C2 *)

NotifyAt(j) == cyc.log[j].op = "Notify"

-----------------------------------------------------------------------------
(* C3 *)

\* C3, as stated: the counter is 0 for a target without history; every cycle
\* that issued a start command without Running being confirmed raises the
\* stored counter by exactly 1, and no other cycle raises it.
C3_Original ==
    CycleDone =>
        /\ (cyc.id \notin DOMAIN cyc.pre) => CountBefore = 0
        /\ (Issued("StartInstance") /\ cyc.outcome # "started") =>
              CountAfter = CountBefore + 1
        /\ (CountAfter > CountBefore) =>
              (Issued("StartInstance") /\ cyc.outcome # "started")

\* C3, amended: the counter is 0 for a target without history; every cycle
\* that issued a start command and whose confirmation loop timed out (twelve
\* polls answered, none of them Running) raises the stored counter by exactly
\* 1; a cycle that issued a start command and was then aborted by a failing
\* status poll leaves the counter unchanged; no other cycle raises it.
C3_Counter ==
    CycleDone =>
        /\ (cyc.id \notin DOMAIN cyc.pre) => CountBefore = 0
        /\ (cyc.outcome = "timeout") =>
              /\ CountAfter = CountBefore + 1
              /\ Issued("StartInstance")
              /\ cyc.polls * START_POLL_INTERVAL = START_WAIT_TIMEOUT
              /\ cyc.firstRunning = 0
              /\ cyc.raisedAt = ""
        /\ (Issued("StartInstance") /\ cyc.raisedAt = "" /\ cyc.firstRunning = 0) =>
              cyc.outcome = "timeout"
        /\ (cyc.raisedAt = "poll") =>
              (Issued("StartInstance") /\ CountAfter = CountBefore)
        /\ (CountAfter > CountBefore) => cyc.outcome = "timeout"

\* the first timed-out start of a target without history
C3_Witness ==
    /\ CycleDone
    /\ cyc.id \notin DOMAIN cyc.pre
    /\ cyc.outcome = "timeout"
    /\ CountAfter = 1

-----------------------------------------------------------------------------
(* C4 *)

\* C4, as stated: no cycle lowers the failure counter, except a cycle in
\* which a start was issued and confirmed, which resets it to 0.
C4_Original ==
    CycleDone =>
        \/ CountAfter >= CountBefore
        \/ (CountAfter = 0 /\ Issued("StartInstance") /\ cyc.outcome = "started")

\* C4, amended: no cycle lowers the failure counter, except that it is reset
\* to 0 in a Case A cycle in which a start was issued and confirmed, and in a
\* Case A cycle whose status query finds the instance already Running.
C4_Monotone ==
    CycleDone =>
        \/ CountAfter >= CountBefore
        \/ /\ CountAfter = 0
           /\ CaseA
           /\ \/ (Issued("StartInstance") /\ cyc.outcome = "started")
              \/ (cyc.status0 = "Running" /\ cyc.log = <<>>)

\* a positive counter reset by a confirmed start
C4_Witness ==
    /\ CycleDone
    /\ CountBefore > 0
    /\ CountAfter = 0
    /\ cyc.outcome = "started"

-----------------------------------------------------------------------------
(* C5 *)

\* C5: a cycle in which a cloud call raised (traffic query, status query,
\* start command, a status poll, stop command) ends with the history as it
\* was before the cycle and without a Notify call, and main's loop moves on to
\* the next user.
C5_AbortClean ==
    (cyc.active /\ cyc.raisedAt # "") =>
        /\ cyc.done
        /\ state = cyc.pre
        /\ sent = cyc.sentPre
        /\ NoNotify
        /\ pc = "loop"
        /\ idx = Len(run.visited) + 1
        /\ run.saves = 0

\* a start was issued, the third status poll raised, another user follows
C5_Witness ==
    /\ CycleDone
    /\ cyc.raisedAt = "poll"
    /\ cyc.polls = 3
    /\ Issued("StartInstance")
    /\ idx <= Len(config)
    /\ cyc.id \in DOMAIN state

-----------------------------------------------------------------------------
(* C6 *)

\* C6, as stated: a cycle in which a status query answered "not found" (the
\* first query, or one of the confirmation loop) ends with the history as it
\* was before the cycle and without a Notify call.
C6_Claim ==
    (CycleDone /\ cyc.notFoundAt # "") =>
        /\ state = cyc.pre
        /\ NoNotify

-----------------------------------------------------------------------------
(* C7 *)

\* C7, as stated: a run that loaded its configuration calls check_and_act for
\* every configured user once, in file order, and then saves the history once;
\* no run ends without saving.
C7_Claim ==
    /\ pc # "crashed"
    /\ run.loaded =>
          /\ run.visited = [j \in 1..Len(run.visited) |-> j]
          /\ (pc = "idle") => (Len(run.visited) = Len(config) /\ run.saves = 1)
          /\ (pc # "idle") => run.saves = 0

-----------------------------------------------------------------------------
(* C8 *)

\* the clock when the start command of the cycle was issued
StartedAt == cyc.log[1].at

\* C8, as stated: the confirmation loop makes at most 12 polls, makes no
\* further poll or sleep after the first poll that answers Running, and
\* otherwise ends as a timeout after exactly the 12th poll.
C8_Original ==
    (cyc.active /\ Issued("StartInstance")) =>
        /\ cyc.polls <= 12
        /\ now = StartedAt + cyc.polls * START_POLL_INTERVAL
        /\ (cyc.firstRunning # 0) => cyc.polls = cyc.firstRunning
        /\ CycleDone =>
              IF cyc.firstRunning # 0
              THEN cyc.outcome = "started"
              ELSE cyc.outcome = "timeout" /\ cyc.polls = 12

\* C8, amended: the confirmation loop makes at most 12 polls, makes no further
\* poll or sleep after the first poll that answers Running, ends at once,
\* aborting the cycle, when the status query of a poll raises an error, and
\* otherwise ends as a timeout after exactly the 12th poll.
C8_Loop ==
    (cyc.active /\ Issued("StartInstance")) =>
        /\ cyc.polls <= 12
        /\ now = StartedAt + cyc.polls * START_POLL_INTERVAL
        /\ (cyc.firstRunning # 0) => cyc.polls = cyc.firstRunning
        /\ (cyc.raisedAt # "") => (cyc.raisedAt = "poll" /\ cyc.done)
        /\ CycleDone =>
              IF cyc.firstRunning # 0
              THEN cyc.outcome = "started"
              ELSE IF cyc.raisedAt = "poll"
              THEN cyc.outcome = "" /\ cyc.polls \in 1..12
              ELSE cyc.outcome = "timeout" /\ cyc.polls = 12

\* Running answered by the sixth poll, which is the last one
C8_Witness ==
    /\ CycleDone
    /\ cyc.firstRunning = 6
    /\ cyc.polls = 6
    /\ cyc.outcome = "started"

-----------------------------------------------------------------------------
(* C9 *)

\* C9: a cycle whose queries were answered takes the safe branch when
\* traffic < quota and the overlimit branch when traffic >= quota (traffic
\* equal to the quota is overlimit); a start command is issued only on the
\* safe branch with initial status Stopped, a stop command only on the
\* overlimit branch with initial status Running, and never both.
C9_Partition ==
    cyc.active =>
        /\ (CycleDone /\ QueriesDone) =>
              /\ cyc.branch \in {"safe", "overlimit"}
              /\ (cyc.branch = "safe") <=> (cyc.traffic < cyc.limit * MiBPerGiB)
              /\ (cyc.branch = "overlimit") <=> (cyc.traffic >= cyc.limit * MiBPerGiB)
        /\ Issued("StartInstance") =>
              /\ cyc.traffic < cyc.limit * MiBPerGiB
              /\ cyc.branch = "safe"
              /\ cyc.status0 = "Stopped"
        /\ Issued("StopInstance") =>
              /\ cyc.traffic >= cyc.limit * MiBPerGiB
              /\ cyc.branch = "overlimit"
              /\ cyc.status0 = "Running"
        /\ ~(Issued("StartInstance") /\ Issued("StopInstance"))

\* traffic exactly at the quota: the running instance is stopped
C9_Witness ==
    /\ CycleDone
    /\ cyc.traffic = cyc.limit * MiBPerGiB
    /\ cyc.status0 = "Running"
    /\ Issued("StopInstance")

-----------------------------------------------------------------------------
(* C11: a target that stays Stopped below its quota and never comes up *)

\* With one configured user every run of main is one cycle of that user, and
\* the user's count is 0 before the first run. A cycle of the sequence: safe
\* traffic, status Stopped, no cloud call raised, and the start, if one was
\* issued, timed out. The count before run n being n - 1 (n <= 3), or 3 at run
\* 4, means that every earlier run was a timed-out start.
StreakCycle ==
    /\ Len(config) = 1
    /\ CycleDone
    /\ CaseA
    /\ cyc.status0 = "Stopped"
    /\ cyc.raisedAt = ""
    /\ Issued("StartInstance") => cyc.outcome = "timeout"

\* C11, as stated: from failure count 0, over consecutive cycles that find
\* the target Stopped below its quota and whose starts all time out, the
\* stored count is 1, 2, 3 after the first three cycles, a start command is
\* issued in exactly those three cycles, the first no_resource alert is sent
\* in the 4th cycle, and later no_resource alerts are at least 3600 s apart.
C11_Claim ==
    /\ (StreakCycle /\ runs \in 1..3 /\ CountBefore = runs - 1) =>
          /\ Issued("StartInstance")
          /\ CountAfter = runs
          /\ ~Notified("no_resource")
    /\ (StreakCycle /\ runs = 4 /\ CountBefore = MAX_START_FAILURES) =>
          /\ ~Issued("StartInstance")
          /\ CountAfter = MAX_START_FAILURES
          /\ Notified("no_resource")
    /\ (StreakCycle /\ runs >= 5 /\ CountBefore = MAX_START_FAILURES
                    /\ StampBefore("no_resource") > StartClock) =>
          /\ ~Issued("StartInstance")
          /\ CountAfter = MAX_START_FAILURES
          /\ Notified("no_resource") =>
                now - StampBefore("no_resource") >= NOTIFY_COOLDOWN

-----------------------------------------------------------------------------
(* C12 *)

\* C12, as stated: over the Case B cycles of one target at most one overlimit
\* notification is sent per 86400 s, whether the cycle stopped the instance
\* (status Running) or found it not running: an overlimit notification of
\* either kind comes at least 86400 s after the previous one of either kind.
C12_Claim ==
    (cyc.active /\ CaseB) =>
        \A j \in DOMAIN cyc.log :
            NotifyAt(j) =>
                /\ cyc.log[j].arg = "overlimit"
                /\ <<cyc.id, "overlimit">> \in DOMAIN cyc.sentPre =>
                      cyc.log[j].at - cyc.sentPre[<<cyc.id, "overlimit">>]
                          >= OVERLIMIT_COOLDOWN
                /\ \A j2 \in DOMAIN cyc.log : NotifyAt(j2) => j2 = j

-----------------------------------------------------------------------------
(* C13 *)

\* the target's entry of a history, {} when it has none
EntryBefore == Get(cyc.pre, cyc.id, EmptyDict)

EntryAfter == Get(state, cyc.id, EmptyDict)

\* the key is stored in both entries with the same value, or in neither
SameKey(k) ==
    /\ (k \in DOMAIN EntryBefore) <=> (k \in DOMAIN EntryAfter)
    /\ (k \in DOMAIN EntryBefore) => EntryAfter[k] = EntryBefore[k]

\* C13: a Case B (overlimit) cycle never changes the failure counter, whatever
\* the status and whether or not a stop command is issued: the counter during
\* and after the cycle is the counter before it (the stored value is not
\* touched), and no start command is issued.
C13_Frame ==
    (cyc.active /\ CaseB) =>
        /\ CountAfter = CountBefore
        /\ SameKey("start_failures")
        /\ ~Issued("StartInstance")

\* a target with failed starts goes over its quota while Running: it is
\* stopped and reported, and the count stays
C13_Witness ==
    /\ CycleDone
    /\ CaseB
    /\ CountBefore > 0
    /\ Issued("StopInstance")
    /\ Notified("overlimit")
    /\ CountAfter = CountBefore

-----------------------------------------------------------------------------
(* C14 *)

\* C14: a Case B cycle with status Running always calls the stop command
\* (the call is made whether or not the overlimit cooldown has elapsed; it may
\* raise); only the notification depends on the cooldown; the stop command
\* comes before the notification and before the overlimit timestamp is
\* written.
C14_StopFirst ==
    (cyc.active /\ CaseB /\ cyc.status0 = "Running") =>
        /\ CycleDone => (Issued("StopInstance") \/ cyc.raisedAt = "stop")
        /\ ~Issued("StopInstance") => (state = cyc.pre /\ cyc.log = <<>>)
        /\ Issued("StopInstance") => cyc.log[1].op = "StopInstance"
        /\ CycleDone =>
              (Notified("overlimit") <=>
                  ( /\ Issued("StopInstance")
                    /\ now - StampBefore("overlimit") >= OVERLIMIT_COOLDOWN ))

\* the instance is stopped while the overlimit cooldown is still running:
\* the command is issued, nothing is sent
C14_Witness ==
    /\ CycleDone
    /\ CaseB
    /\ cyc.status0 = "Running"
    /\ Issued("StopInstance")
    /\ HadStamp("overlimit")
    /\ now - StampBefore("overlimit") < OVERLIMIT_COOLDOWN
    /\ NoNotify

-----------------------------------------------------------------------------
(* C15 *)

\* C15: after a cycle in which a start was confirmed Running the failure
\* counter is 0 and no no_resource timestamp is stored; the resumed
\* notification is sent, and its timestamp set to the clock, exactly when 3600
\* s have passed since the stored resumed timestamp (otherwise that timestamp
\* stays); the start_failed and overlimit timestamps are as before. A cycle
\* that reaches the exhaustion gate with no no_resource timestamp stored sends
\* the no_resource alert.
C15_Confirmed ==
    /\ (CycleDone /\ cyc.outcome = "started") =>
          /\ CountAfter = 0
          /\ "start_failures" \in DOMAIN EntryAfter
          /\ ~HasStamp("no_resource")
          /\ Notified("resumed") <=>
                (now - StampBefore("resumed") >= NOTIFY_COOLDOWN)
          /\ Notified("resumed") =>
                (HasStamp("resumed") /\ EntryAfter["resumed"] = now)
          /\ ~Notified("resumed") => SameKey("resumed")
          /\ SameKey("start_failed")
          /\ SameKey("overlimit")
          /\ \A j \in DOMAIN cyc.log :
                NotifyAt(j) => cyc.log[j].arg = "resumed"
    /\ (CycleDone /\ CaseA /\ cyc.status0 = "Stopped"
                  /\ CountBefore >= MAX_START_FAILURES
                  /\ ~HadStamp("no_resource")) =>
          Notified("no_resource")

\* a confirmed start of a target that had been reported out of resources:
\* the no_resource timestamp goes, the start_failed timestamp stays
C15_Witness ==
    /\ CycleDone
    /\ cyc.outcome = "started"
    /\ HadStamp("no_resource")
    /\ ~HasStamp("no_resource")
    /\ HadStamp("start_failed")
    /\ Notified("resumed")

-----------------------------------------------------------------------------
(* C16 *)

\* C16: a Case A cycle whose status is neither Stopped nor Running issues no
\* command, sends no notification and leaves the whole history as it was.
C16_Hands_Off ==
    (cyc.active /\ CaseA /\ cyc.status0 \notin {"", "Stopped", "Running"}) =>
        /\ cyc.log = <<>>
        /\ state = cyc.pre
        /\ sent = cyc.sentPre

\* a target with failed starts seen in a transition: nothing changes
C16_Witness ==
    /\ CycleDone
    /\ CaseA
    /\ cyc.status0 = "Starting"
    /\ CountBefore > 0
    /\ cyc.branch = "safe"

-----------------------------------------------------------------------------
(* C17 *)

\* C17: a Case A cycle that finds the instance Running sets the failure
\* counter to 0 and changes nothing else: no command, no notification, every
\* stored event timestamp of the target, no_resource included, as before.
C17_SteadyState ==
    (CycleDone /\ CaseA /\ cyc.status0 = "Running") =>
        /\ cyc.log = <<>>
        /\ sent = cyc.sentPre
        /\ CountAfter = 0
        /\ \A k \in EventKeys : SameKey(k)
        /\ DOMAIN EntryAfter = DOMAIN EntryBefore \cup {"start_failures"}

\* an exhausted target that was reported is found Running: the count is
\* reset, the no_resource timestamp stays
C17_Witness ==
    /\ CycleDone
    /\ CaseA
    /\ cyc.status0 = "Running"
    /\ CountBefore >= MAX_START_FAILURES
    /\ HadStamp("no_resource")
    /\ HasStamp("no_resource")
    /\ CountAfter = 0

-----------------------------------------------------------------------------
(* C18 *)

ConfiguredIds == {config[j].instance_id : j \in 1..Len(config)}

\* during and after a cycle, the entries of all ids but the cycle's own are
\* those the history held when the cycle began, and no entry of another id
\* has been created
OthersUntouched ==
    cyc.active =>
        \A i \in (DOMAIN cyc.pre \cup DOMAIN state) \ {cyc.id} :
            /\ i \in DOMAIN cyc.pre
            /\ i \in DOMAIN state
            /\ state[i] = cyc.pre[i]

\* a step keeps, in the state file, every entry of an id that is not
\* configured; and the history a run holds after loading has them all
StaleKept ==
    /\ \A i \in DOMAIN load_state(disk) \ ConfiguredIds :
          /\ i \in DOMAIN load_state(disk')
          /\ load_state(disk')[i] = load_state(disk)[i]
    /\ (pc' \in {"loop", "traffic", "status", "decide", "start", "poll", "stop"}) =>
          \A i \in DOMAIN load_state(disk) \ ConfiguredIds :
              i \in DOMAIN state' /\ state'[i] = load_state(disk)[i]

\* C18: a cycle writes only the history entry of its own target: the entries
\* of every other id, ids that are no longer configured included, stay as they
\* were, and the entries of ids that are not configured are still in the
\* history that the run saves.
C18_Isolation == []OthersUntouched /\ [][StaleKept]_vars

\* a run changed the entry of i-1 and saved; the entry of i-9, which is not
\* configured, is in the saved file as it was
C18_Witness ==
    /\ pc = "idle"
    /\ run.saves = 1
    /\ "i-9" \in DOMAIN load_state(disk)
    /\ load_state(disk)["i-9"] = OldHistory["i-9"]
    /\ load_state(disk)["i-1"] # OldHistory["i-1"]

-----------------------------------------------------------------------------
(* C19 *)

\* C19: in every reachable state the failure counter stored for any id, in
\* the running process and in the state file, lies in 0..MAX_START_FAILURES:
\* the timeout path adds 1 without a cap, but only in cycles that read a count
\* below the threshold.
C19_Range ==
    /\ \A i \in DOMAIN state :
          get_start_failures(state, i) \in 0..MAX_START_FAILURES
    /\ \A i \in DOMAIN load_state(disk) :
          get_start_failures(load_state(disk), i) \in 0..MAX_START_FAILURES

\* the count is at the threshold, on file too, and a later cycle of the
\* Stopped target ends without a start
C19_Witness ==
    /\ CycleDone
    /\ CaseA
    /\ cyc.status0 = "Stopped"
    /\ CountBefore = MAX_START_FAILURES
    /\ get_start_failures(load_state(disk), cyc.id) = MAX_START_FAILURES
    /\ CountAfter = MAX_START_FAILURES
    /\ ~Issued("StartInstance")

-----------------------------------------------------------------------------
(* C10: can_notify as a function of history, key, window and clock *)

CoolIds == {"i-1", "i-2"}

CoolKeys == {"resumed", "overlimit"}

\* the two windows the program uses, and a week
CoolWindows == {NOTIFY_COOLDOWN, OVERLIMIT_COOLDOWN, 7 * OVERLIMIT_COOLDOWN}

CoolSteps == {1, NOTIFY_COOLDOWN - 1, NOTIFY_COOLDOWN, OVERLIMIT_COOLDOWN}

MaxCoolTicks == 2

InitCooldown ==
    /\ config = <<User1, User2>>
    /\ period = 300
    /\ disk = [kind |-> "missing", data |-> EmptyDict]
    /\ state = EmptyDict
    /\ now \in {StartClock \div 2, StartClock}
    /\ pc = "cooldown"
    /\ idx = 1
    /\ status = ""
    /\ total = 0
    /\ failures = 0
    /\ waited = 0
    /\ started = FALSE
    /\ cyc = IdleCyc
    /\ run = IdleRun
    /\ sent = EmptyDict
    /\ gate = {}
    /\ runs = 0
    /\ twins = IdleTwins

\* mark_notified(state, i, k) at the current clock
CoolMark ==
    /\ pc = "cooldown"
    /\ \E i \in CoolIds, k \in CoolKeys :
          /\ state' = mark_notified(state, i, k, now)
          /\ sent' = Put(sent, <<i, k>>, now)
    /\ UNCHANGED <<config, period, disk, now, pc, idx, locals, cyc, run, gate, runs, twins>>

\* the wall clock advances
CoolTick ==
    /\ pc = "cooldown"
    /\ runs < MaxCoolTicks
    /\ runs' = runs + 1
    /\ \E d \in CoolSteps : now' = now + d
    /\ UNCHANGED <<config, period, disk, state, pc, idx, locals, cyc, run, sent, gate, twins>>

NextCooldown == CoolMark \/ CoolTick

SpecCooldown == InitCooldown /\ [][NextCooldown]_vars

\* C10, as stated: for every target, key, window and clock value, can_notify
\* is true when no timestamp is stored for (target, key), false right after
\* mark_notified for (target, key), and true again exactly when
\* now - lastNotified >= window.
C10_Claim ==
    \A i \in CoolIds, k \in CoolKeys, w \in CoolWindows :
        LET entry == Get(state, i, EmptyDict)
            c == can_notify(state, i, k, w, now)
        IN  /\ (k \notin DOMAIN entry) => c
            /\ (k \in DOMAIN entry /\ entry[k] = now) => ~c
            /\ (k \in DOMAIN entry) => (c <=> (now - entry[k] >= w))

-----------------------------------------------------------------------------
(* C20: two processes on the same inputs, with and without a notifier *)

TgConfigured == [bot_token |-> "token", chat_id |-> "chat"]

\* no telegram section, empty credentials, one credential only, and both
\* credentials with a network that may fail
TgOthers == { EmptyDict,
              [bot_token |-> "", chat_id |-> ""],
              [bot_token |-> "token"],
              TgConfigured }

NetReplies == {"ok", "error"}

\* the places of check_and_act that send: the command issued before (if
\* any), the event key and its window (lines 146, 177, 186, 209, 216)
AlertSites ==
    { [cmd |-> "", key |-> "no_resource", cooldown |-> NOTIFY_COOLDOWN],
      [cmd |-> "StartInstance", key |-> "resumed", cooldown |-> NOTIFY_COOLDOWN],
      [cmd |-> "StartInstance", key |-> "start_failed", cooldown |-> NOTIFY_COOLDOWN],
      [cmd |-> "StopInstance", key |-> "overlimit", cooldown |-> OVERLIMIT_COOLDOWN],
      [cmd |-> "", key |-> "overlimit", cooldown |-> OVERLIMIT_COOLDOWN] }

MaxAlerts == 2

MaxNotifierTicks == 1

NewProcess(tg_conf, history) ==
    [tg_conf |-> tg_conf, state |-> history, cmds |-> <<>>,
     due |-> EmptyDict, posted |-> {}]

\* one process passes a site at clock t: the command, then
\* "if can_notify(...): send_tg_alert(...); mark_notified(...)"; an exception
\* of send_tg_alert would leave the try block before mark_notified
AlertSite(p, id, site, net, t) ==
    LET p1 == IF site.cmd = "" THEN p
              ELSE [p EXCEPT !.cmds = Append(@, site.cmd)]
    IN  IF can_notify(p1.state, id, site.key, site.cooldown, t)
        THEN LET r == send_tg_alert(p1.tg_conf, net)
                 p2 == [p1 EXCEPT !.due = Put(@, site.key, t)]
             IN  IF r.raised
                 THEN p2
                 ELSE [p2 EXCEPT !.state = mark_notified(@, id, site.key, t),
                                 !.posted = IF r.posted
                                            THEN @ \cup {<<site.key, t>>}
                                            ELSE @]
        ELSE p1

InitNotifier ==
    /\ config = <<User1>>
    /\ period = 300
    /\ disk \in InitDisks
    /\ state = EmptyDict
    /\ now = StartClock
    /\ pc = "notifier"
    /\ idx = 1
    /\ status = ""
    /\ total = 0
    /\ failures = 0
    /\ waited = 0
    /\ started = FALSE
    /\ cyc = IdleCyc
    /\ run = IdleRun
    /\ sent = EmptyDict
    /\ gate = {}
    /\ runs = 0
    /\ \E tg \in TgOthers :
          twins = [with    |-> NewProcess(TgConfigured, load_state(disk)),
                   without |-> NewProcess(tg, load_state(disk)),
                   alerts  |-> 0]

\* both processes pass the same site at the same clock; the post of the
\* first succeeds, the post of the second (if it posts at all) may fail
NotifierAlert ==
    /\ pc = "notifier"
    /\ twins.alerts < MaxAlerts
    /\ \E site \in AlertSites, net \in NetReplies :
          twins' = [with    |-> AlertSite(twins.with, instance_id, site, "ok", now),
                    without |-> AlertSite(twins.without, instance_id, site, net, now),
                    alerts  |-> twins.alerts + 1]
    /\ UNCHANGED <<config, period, disk, state, now, pc, idx, locals, cyc, run,
                   sent, gate, runs>>

NotifierTick ==
    /\ pc = "notifier"
    /\ runs < MaxNotifierTicks
    /\ runs' = runs + 1
    /\ \E d \in CoolSteps : now' = now + d
    /\ UNCHANGED <<config, period, disk, state, pc, idx, locals, cyc, run, sent,
                   gate, twins>>

NextNotifier == NotifierAlert \/ NotifierTick

SpecNotifier == InitNotifier /\ [][NextNotifier]_vars

====
